---- MODULE Spec2Model ----
(***************************************************************************)
(* A model of mwtab.tokenizer.tokenizer, the generator-based lexical       *)
(* analyzer of the mwTab format (src/mwtab/tokenizer.py).                  *)
(*                                                                         *)
(* A Python str is modelled as a sequence of one-character strings, so     *)
(* that startswith, endswith, "in", split, strip and slicing are computed  *)
(* the way Python computes them.  The generator is modelled as a state     *)
(* machine whose control points are its yield statements and loop heads;   *)
(* every step emits at most one token.                                     *)
(*                                                                         *)
(* A second, independent state machine models                              *)
(* mwtab.mwextract.extract_metabolites (src/mwtab/mwextract.py): one step  *)
(* per file of its generator argument.  Each specification keeps the       *)
(* variables of the other machine idle.                                    *)
(***************************************************************************)
EXTENDS Naturals, Sequences, FiniteSets

VARIABLES
    text,    \* the argument of tokenizer(text)
    stream,  \* the deque of lines not yet consumed
    line,    \* the generator's local variable `line`
    idents,  \* identifiers of a header line the for loop has still to visit
    pc,      \* where the generator is suspended or looping
    tokens,  \* the tokens received by the caller so far, in order
    origin,  \* history: for each token, the yield statement that produced it
    source,  \* history: for each token, the number of lines popped when it was yielded
    err,     \* the exception delivered to the caller, if any
    mwfiles,     \* the files mwfile_generator hands to extract_metabolites
    kwargs,      \* the "<key>" and "<value>" lists of extract_metabolites
    findex,      \* how many files the for loop of extract_metabolites has taken
    metabolites, \* the dict extract_metabolites builds and returns
    xpc          \* where extract_metabolites is

tokenizerVars == <<text, stream, line, idents, pc, tokens, origin, source, err>>

extractVars == <<mwfiles, kwargs, findex, metabolites, xpc>>

vars == <<text, stream, line, idents, pc, tokens, origin, source, err,
          mwfiles, kwargs, findex, metabolites, xpc>>

(***************************************************************************)
(* Bounds of the model.                                                    *)
(***************************************************************************)
MaxLines == 3

(***************************************************************************)
(* Characters and the literals of the source.                              *)
(***************************************************************************)
TAB == "\t"
NL  == "\n"
SP  == " "

\* "#METABOLOMICS WORKBENCH"
HEADER ==
    <<"#","M","E","T","A","B","O","L","O","M","I","C","S"," ",
      "W","O","R","K","B","E","N","C","H">>

\* "SUBJECT_SAMPLE_FACTORS"
SSF ==
    <<"S","U","B","J","E","C","T","_","S","A","M","P","L","E","_",
      "F","A","C","T","O","R","S">>

\* "#SUBJECT_SAMPLE_FACTORS:"
SSF_HEADER == <<"#">> \o SSF \o <<":">>

\* "#SUBJECT_SAMPLE_FACTORS"
SSF_MARKER == <<"#">> \o SSF

\* "_START"
START == <<"_","S","T","A","R","T">>

\* "_END"
END == <<"_","E","N","D">>

\* "_RESULTS_FILE"
RESULTS_FILE == <<"_","R","E","S","U","L","T","S","_","F","I","L","E">>

\* "_METABOLITE_DATA:UNITS"
METABOLITE_DATA_UNITS ==
    <<"_","M","E","T","A","B","O","L","I","T","E","_","D","A","T","A",":",
      "U","N","I","T","S">>

\* "Units"
UNITS == <<"U","n","i","t","s">>

\* "#ENDSECTION"
ENDSECTION == <<"#","E","N","D","S","E","C","T","I","O","N">>

\* "!#ENDFILE"
ENDFILE == <<"!","#","E","N","D","F","I","L","E">>

(***************************************************************************)
(* Python str operations.                                                  *)
(***************************************************************************)
StartsWith(s, p) == Len(s) >= Len(p) /\ SubSeq(s, 1, Len(p)) = p

EndsWith(s, p) == Len(s) >= Len(p) /\ SubSeq(s, Len(s) - Len(p) + 1, Len(s)) = p

\* p in s, for a non-empty p
Contains(s, p) == \E i \in 1..(Len(s) + 1 - Len(p)) : SubSeq(s, i, i + Len(p) - 1) = p

HasChar(s, c) == \E i \in 1..Len(s) : s[i] = c

\* the positions of the separator c in s, and the k-th of them
Positions(s, c) == { i \in 1..Len(s) : s[i] = c }

Position(s, c, k) ==
    CHOOSE i \in Positions(s, c) : Cardinality({ j \in Positions(s, c) : j <= i }) = k

FirstIndex(s, c) == Position(s, c, 1)

\* s.split(c) for a one-character separator: never empty, keeps empty fields
Split(s, c) ==
    LET n == Cardinality(Positions(s, c)) IN
    [ k \in 1..(n + 1) |->
        SubSeq(s,
               IF k = 1 THEN 1 ELSE Position(s, c, k - 1) + 1,
               IF k = n + 1 THEN Len(s) ELSE Position(s, c, k) - 1) ]

Whitespace == {" ", "\t", "\n", "\r", "\f"}

\* s.strip(): from the first to the last character that is not whitespace
Strip(s) ==
    LET keep == { i \in 1..Len(s) : s[i] \notin Whitespace } IN
    IF keep = {} THEN <<>>
    ELSE SubSeq(s, CHOOSE i \in keep : \A j \in keep : i <= j,
                   CHOOSE i \in keep : \A j \in keep : j <= i)

\* s[3:]
From3(s) == SubSeq(s, 4, Len(s))

\* s[2:] of a list
From2(s) == SubSeq(s, 3, Len(s))

\* repr(s): quoted, with the tab escaped as backslash-t
RECURSIVE Escape(_)
Escape(s) ==
    IF s = <<>> THEN <<>>
    ELSE (IF Head(s) = TAB THEN <<"\\", "t">> ELSE <<Head(s)>>) \o Escape(Tail(s))

Repr(s) == <<"'">> \o Escape(s) \o <<"'">>

\* "\n".join(ls)
RECURSIVE Join(_)
Join(ls) ==
    IF Len(ls) = 0 THEN <<>>
    ELSE IF Len(ls) = 1 THEN ls[1]
    ELSE ls[1] \o <<NL>> \o Join(Tail(ls))

(***************************************************************************)
(* Tokens.  A namedtuple is a record; vtype is the Python type of a        *)
(* KeyValue's value (a str, or the tuple of fields of a data-block row).   *)
(***************************************************************************)
KeyValue(key, value) ==
    [type |-> "KeyValue", key |-> key, value |-> value, vtype |-> "str"]

RowKeyValue(key, data) ==
    [type |-> "KeyValue", key |-> key, value |-> data, vtype |-> "tuple"]

KeyValueExtra(key, value, extra) ==
    [type |-> "KeyValueExtra", key |-> key, value |-> value, extra |-> extra]

SubjectSampleFactors(key, subject_type, local_sample_id, factors, additional) ==
    [type |-> "SubjectSampleFactors", key |-> key, subject_type |-> subject_type,
     local_sample_id |-> local_sample_id, factors |-> factors,
     additional_sample_data |-> additional]

(***************************************************************************)
(* Exceptions.  The handlers of the source catch ValueError only and       *)
(* re-raise it as ValueError("LINE WITH ERROR:\n\t", repr(line), e); an    *)
(* IndexError leaves the generator as it was raised.                       *)
(***************************************************************************)
NoError == [type |-> "none", msg |-> "", line |-> <<>>, cause |-> ""]

LineError(l, cause) ==
    [type |-> "ValueError", msg |-> "LINE WITH ERROR:\n\t", line |-> Repr(l),
     cause |-> cause]

IndexError(msg) == [type |-> "IndexError", msg |-> msg, line |-> <<>>, cause |-> ""]

\* the message of a failed tuple unpacking of n values into `expected` names
UnpackCause(n, expected) ==
    IF n < expected THEN "not enough values to unpack"
    ELSE "too many values to unpack"

(***************************************************************************)
(* Python dict: a function; a later assignment to a key overwrites.        *)
(***************************************************************************)
EmptyDict == [k \in {} |-> <<>>]

DictPut(d, k, v) == [x \in (DOMAIN d) \cup {k} |-> IF x = k THEN v ELSE d[x]]

(***************************************************************************)
(* The order of the if/elif chain of the main loop.                        *)
(***************************************************************************)
Classify(l) ==
    IF StartsWith(l, HEADER) THEN "header"
    ELSE IF StartsWith(l, SSF_HEADER) THEN "ssf_header"
    ELSE IF StartsWith(l, <<"#">>) THEN "section"
    ELSE IF StartsWith(l, SSF) THEN "ssf"
    ELSE IF EndsWith(l, START) THEN "start"
    ELSE "item"

(***************************************************************************)
(* A SUBJECT_SAMPLE_FACTORS line.                                          *)
(***************************************************************************)
RECURSIVE FactorsFrom(_, _)
FactorsFrom(d, items) ==
    IF Len(items) = 0 THEN d
    ELSE LET p == Split(Head(items), ":")
         IN  FactorsFrom(DictPut(d, Strip(p[1]), Strip(p[2])), Tail(items))

RECURSIVE AdditionalFrom(_, _)
AdditionalFrom(d, items) ==
    IF Len(items) = 0 THEN d
    ELSE IF HasChar(Head(items), "=")
         THEN LET p == Split(Head(items), "=")
              IN  AdditionalFrom(DictPut(d, Strip(p[1]), Strip(p[2])), Tail(items))
         ELSE AdditionalFrom(d, Tail(items))

\* the line once split into its tab-separated fields f
SubjectSampleFactorsUnpack(l, f) ==
    IF Len(f) # 5
    THEN [ok |-> FALSE, err |-> LineError(l, UnpackCause(Len(f), 5))]
    ELSE LET factor_items == Split(f[4], "|")
             items        == Split(f[5], ";")
         IN
         IF \E i \in 1..Len(factor_items) : Len(Split(factor_items[i], ":")) < 2
         THEN [ok |-> FALSE, err |-> IndexError("list index out of range")]
         ELSE IF \E i \in 1..Len(items) :
                    HasChar(items[i], "=") /\ Len(Split(items[i], "=")) # 2
         THEN [ok |-> FALSE, err |-> LineError(l, UnpackCause(3, 2))]
         ELSE [ok |-> TRUE, site |-> "ssf",
               token |-> SubjectSampleFactors(Strip(f[1]), f[2], f[3],
                             FactorsFrom(EmptyDict, factor_items),
                             AdditionalFrom(EmptyDict, items))]

\* (the singleton binds the split fields once)
SubjectSampleFactorsResult(l) ==
    CHOOSE r \in { SubjectSampleFactorsUnpack(l, f) : f \in {Split(l, TAB)} } : TRUE

(***************************************************************************)
(* A non-empty item line.                                                  *)
(***************************************************************************)
RECURSIVE ExtraItems(_)
ExtraItems(fields) ==
    IF Len(fields) = 0 THEN <<>>
    ELSE (IF HasChar(Head(fields), ":") THEN <<Split(Head(fields), ":")>> ELSE <<>>)
         \o ExtraItems(Tail(fields))

\* a line containing "_RESULTS_FILE"
ResultsFileResult(l) ==
    LET line_items == Split(l, TAB) IN
    IF Len(line_items) > 2
    THEN [ok |-> TRUE, site |-> "results_extra",
          token |-> KeyValueExtra(From3(Strip(line_items[1])), line_items[2],
                                  ExtraItems(From2(line_items)))]
    ELSE IF Len(line_items) = 2
    THEN [ok |-> TRUE, site |-> "results",
          token |-> KeyValue(From3(Strip(line_items[1])), line_items[2])]
    ELSE [ok |-> FALSE, err |-> IndexError("list index out of range")]

\* mutant: the line is partitioned at its first tab, a missing tab giving an
\* empty value, instead of being unpacked into exactly two fields
KeyValueResultLenient(l) ==
    LET kv == Split(l, TAB) IN
    [ok |-> TRUE, site |-> "item",
     token |-> KeyValue(Strip(kv[1]), IF Len(kv) > 1 THEN kv[2] ELSE <<>>)]

\* mutant: the line is partitioned at its first tab, later tabs staying in
\* the value
KeyValueResultFirstTab(l) ==
    IF ~HasChar(l, TAB)
    THEN [ok |-> FALSE, err |-> LineError(l, UnpackCause(1, 2))]
    ELSE [ok |-> TRUE, site |-> "item",
          token |-> KeyValue(Strip(SubSeq(l, 1, FirstIndex(l, TAB) - 1)),
                             SubSeq(l, FirstIndex(l, TAB) + 1, Len(l)))]

\* mutant: the prefix is cut off the key as it stands, white space included
KeyValueResultRawPrefix(l) ==
    LET kv == Split(l, TAB) IN
    IF Len(kv) # 2
    THEN [ok |-> FALSE, err |-> LineError(l, UnpackCause(Len(kv), 2))]
    ELSE IF HasChar(kv[1], ":")
    THEN IF EndsWith(kv[1], METABOLITE_DATA_UNITS)
         THEN [ok |-> TRUE, site |-> "units", token |-> KeyValue(UNITS, kv[2])]
         ELSE [ok |-> TRUE, site |-> "item_prefixed",
               token |-> KeyValue(From3(kv[1]), kv[2])]
    ELSE [ok |-> TRUE, site |-> "item", token |-> KeyValue(Strip(kv[1]), kv[2])]

\* any other item line: key, value = line.split("\t")
KeyValueResult(l) ==
    LET kv == Split(l, TAB) IN
    IF Len(kv) # 2
    THEN [ok |-> FALSE, err |-> LineError(l, UnpackCause(Len(kv), 2))]
    ELSE IF HasChar(kv[1], ":")
    THEN IF EndsWith(kv[1], METABOLITE_DATA_UNITS)
         THEN [ok |-> TRUE, site |-> "units", token |-> KeyValue(UNITS, kv[2])]
         ELSE [ok |-> TRUE, site |-> "item_prefixed",
               token |-> KeyValue(From3(Strip(kv[1])), kv[2])]
    ELSE [ok |-> TRUE, site |-> "item", token |-> KeyValue(Strip(kv[1]), kv[2])]

ItemResult(l) ==
    IF Contains(l, RESULTS_FILE) THEN ResultsFileResult(l) ELSE KeyValueResult(l)

(***************************************************************************)
(* The input texts: up to MaxLines lines, each one of the line shapes the  *)
(* tokenizer distinguishes, joined by newlines.                            *)
(***************************************************************************)
\* "#METABOLOMICS WORKBENCH x k:v"
LineHeader == HEADER \o <<" ","x"," ","k",":","v">>

\* "#METABOLOMICS WORKBENCH k:v a:b:c"
LineHeaderBad == HEADER \o <<" ","k",":","v"," ","a",":","b",":","c">>

\* "#END"
LineSection == <<"#","E","N","D">>

\* "SUBJECT_SAMPLE_FACTORS\th\ts\tA:1\tR=a"
LineSSF == SSF \o <<TAB,"h",TAB,"s",TAB,"A",":","1",TAB,"R","=","a">>

\* "SUBJECT_SAMPLE_FACTORS\th"
LineSSFArity == SSF \o <<TAB,"h">>

\* "SUBJECT_SAMPLE_FACTORS\th\ts\tA\tR=a"
LineSSFFactor == SSF \o <<TAB,"h",TAB,"s",TAB,"A",TAB,"R","=","a">>

\* "M_START"
LineStart == <<"M">> \o START

\* "M_END"
LineEnd == <<"M">> \o END

\* "N_END"
LineOtherEnd == <<"N">> \o END

\* "s\t1"
LineKeyValue == <<"s",TAB,"1">>

\* "k"
LineNoTab == <<"k">>

\* "_RESULTS_FILE"
LineResultsNoTab == RESULTS_FILE

\* "!#ENDFILE\tx"
LineEndFileKey == ENDFILE \o <<TAB,"x">>

Lines ==
    { <<>>, LineHeader, LineHeaderBad, SSF_HEADER, LineSection, LineSSF,
      LineSSFArity, LineSSFFactor, LineStart, LineEnd, LineOtherEnd,
      LineKeyValue, LineNoTab, LineResultsNoTab, LineEndFileKey }

Texts == { Join(ls) : ls \in UNION { [1..n -> Lines] : n \in 1..MaxLines } }

(***************************************************************************)
(* The generator.                                                          *)
(***************************************************************************)
\* extract_metabolites has not been called
ExtractIdle ==
    /\ mwfiles = <<>>
    /\ kwargs = [key |-> <<>>, value |-> <<>>]
    /\ findex = 0
    /\ metabolites = EmptyDict
    /\ xpc = "idle"

Init ==
    /\ text \in Texts
    /\ stream = Split(text, NL)
    /\ line = <<>>
    /\ idents = <<>>
    /\ pc = "loop"
    /\ tokens = <<>>
    /\ origin = <<>>
    /\ source = <<>>
    /\ err = NoError
    /\ ExtractIdle

\* the lines popped off the deque so far
Consumed == Cardinality(Positions(text, NL)) + 1 - Len(stream)

\* yield token, at the yield statement `site`, with n lines popped
Emit(token, site, n) ==
    /\ tokens' = Append(tokens, token)
    /\ origin' = Append(origin, site)
    /\ source' = Append(source, n)

\* mutant: the tokens are handed over only when the whole text was tokenized,
\* so an error discards what was produced
RaiseDiscarding(e) ==
    /\ pc' = "error"
    /\ err' = e
    /\ tokens' = <<>>
    /\ origin' = <<>>
    /\ source' = <<>>

Raise(e) ==
    /\ pc' = "error"
    /\ err' = e
    /\ UNCHANGED <<tokens, origin, source>>

\* mutant: the lines are taken from the right end of the deque
PopLineRight(c) ==
    /\ pc = "loop"
    /\ Len(stream) > 0
    /\ Classify(stream[Len(stream)]) = c
    /\ line' = stream[Len(stream)]
    /\ stream' = SubSeq(stream, 1, Len(stream) - 1)

\* line = stream.popleft() at the head of the main loop, for a line of class c
PopLine(c) ==
    /\ pc = "loop"
    /\ Len(stream) > 0
    /\ Classify(Head(stream)) = c
    /\ line' = Head(stream)
    /\ stream' = Tail(stream)

Header ==
    /\ PopLine("header")
    /\ Emit(KeyValue(HEADER, <<NL>>), "header", Consumed + 1)
    /\ idents' = Split(Head(stream), SP)
    /\ pc' = "header"
    /\ UNCHANGED <<text, err, extractVars>>

\* mutant: an identifier without ":" is unpacked like any other and fails
HeaderSkipRaises ==
    /\ pc = "header"
    /\ Len(idents) > 0
    /\ ~HasChar(Head(idents), ":")
    /\ Raise(LineError(line, UnpackCause(1, 2)))
    /\ UNCHANGED <<text, stream, line, idents, extractVars>>

HeaderSkip ==
    /\ pc = "header"
    /\ Len(idents) > 0
    /\ ~HasChar(Head(idents), ":")
    /\ idents' = Tail(idents)
    /\ UNCHANGED <<text, stream, line, pc, tokens, origin, source, err, extractVars>>

HeaderKeyValue ==
    /\ pc = "header"
    /\ Len(idents) > 0
    /\ HasChar(Head(idents), ":")
    /\ LET kv == Split(Head(idents), ":") IN
         /\ Len(kv) = 2
         /\ Emit(KeyValue(kv[1], kv[2]), "identifier", Consumed)
    /\ idents' = Tail(idents)
    /\ UNCHANGED <<text, stream, line, pc, err, extractVars>>

HeaderRaise ==
    /\ pc = "header"
    /\ Len(idents) > 0
    /\ HasChar(Head(idents), ":")
    /\ LET kv == Split(Head(idents), ":") IN
         /\ Len(kv) # 2
         /\ Raise(LineError(line, UnpackCause(Len(kv), 2)))
    /\ UNCHANGED <<text, stream, line, idents, extractVars>>

HeaderEnd ==
    /\ pc = "header"
    /\ Len(idents) = 0
    /\ pc' = "loop"
    /\ UNCHANGED <<text, stream, line, idents, tokens, origin, source, err, extractVars>>

SubjectSampleFactorsHeader ==
    /\ PopLine("ssf_header")
    /\ Emit(KeyValue(ENDSECTION, <<NL>>), "endsection", Consumed + 1)
    /\ pc' = "ssf_header"
    /\ UNCHANGED <<text, idents, err, extractVars>>

SubjectSampleFactorsMarker ==
    /\ pc = "ssf_header"
    /\ Emit(KeyValue(SSF_MARKER, <<NL>>), "ssf_marker", Consumed)
    /\ pc' = "loop"
    /\ UNCHANGED <<text, stream, line, idents, err, extractVars>>

\* mutant: a section header does not close the section before it
SectionHeaderNoClose ==
    /\ PopLine("section")
    /\ pc' = "section"
    /\ UNCHANGED <<text, idents, tokens, origin, source, err, extractVars>>

SectionHeader ==
    /\ PopLine("section")
    /\ Emit(KeyValue(ENDSECTION, <<NL>>), "endsection", Consumed + 1)
    /\ pc' = "section"
    /\ UNCHANGED <<text, idents, err, extractVars>>

SectionMarker ==
    /\ pc = "section"
    /\ Emit(KeyValue(Strip(line), <<NL>>), "section", Consumed)
    /\ pc' = "loop"
    /\ UNCHANGED <<text, stream, line, idents, err, extractVars>>

SubjectSampleFactorsLine ==
    /\ PopLine("ssf")
    /\ \E r \in {SubjectSampleFactorsResult(Head(stream))} :
         IF r.ok
         THEN Emit(r.token, r.site, Consumed + 1) /\ pc' = "loop" /\ UNCHANGED err
         ELSE Raise(r.err)
    /\ UNCHANGED <<text, idents, extractVars>>

DataStart ==
    /\ PopLine("start")
    /\ Emit(KeyValue(Head(stream), <<NL>>), "start", Consumed + 1)
    /\ pc' = "block"
    /\ UNCHANGED <<text, idents, err, extractVars>>

\* mutant: a line ending in "_START" inside a block opens a nested block
DataLineNesting ==
    /\ pc = "block"
    /\ ~EndsWith(line, END)
    /\ Len(stream) > 0
    /\ line' = Head(stream)
    /\ stream' = Tail(stream)
    /\ IF EndsWith(Head(stream), END)
       THEN Emit(KeyValue(Strip(Head(stream)), <<NL>>), "end", Consumed + 1)
       ELSE IF EndsWith(Head(stream), START)
       THEN Emit(KeyValue(Head(stream), <<NL>>), "start", Consumed + 1)
       ELSE LET data == Split(Head(stream), TAB) IN Emit(RowKeyValue(data[1], data), "row", Consumed + 1)
    /\ UNCHANGED <<text, idents, pc, err, extractVars>>

\* mutant: a row's value holds the columns after the key column only
DataLineDropsKey ==
    /\ pc = "block"
    /\ ~EndsWith(line, END)
    /\ Len(stream) > 0
    /\ line' = Head(stream)
    /\ stream' = Tail(stream)
    /\ IF EndsWith(Head(stream), END)
       THEN Emit(KeyValue(Strip(Head(stream)), <<NL>>), "end", Consumed + 1)
       ELSE LET data == Split(Head(stream), TAB) IN Emit(RowKeyValue(data[1], Tail(data)), "row", Consumed + 1)
    /\ UNCHANGED <<text, idents, pc, err, extractVars>>

\* mutant: an empty line inside a block is skipped, as the main loop would
DataLineSkipsEmpty ==
    /\ pc = "block"
    /\ ~EndsWith(line, END)
    /\ Len(stream) > 0
    /\ line' = Head(stream)
    /\ stream' = Tail(stream)
    /\ IF EndsWith(Head(stream), END)
       THEN Emit(KeyValue(Strip(Head(stream)), <<NL>>), "end", Consumed + 1)
       ELSE IF Head(stream) = <<>>
       THEN UNCHANGED <<tokens, origin, source>>
       ELSE LET data == Split(Head(stream), TAB) IN Emit(RowKeyValue(data[1], data), "row", Consumed + 1)
    /\ UNCHANGED <<text, idents, pc, err, extractVars>>

\* one pass of the inner loop: the next line is a row or the _END line
DataLine ==
    /\ pc = "block"
    /\ ~EndsWith(line, END)
    /\ Len(stream) > 0
    /\ line' = Head(stream)
    /\ stream' = Tail(stream)
    /\ IF EndsWith(Head(stream), END)
       THEN Emit(KeyValue(Strip(Head(stream)), <<NL>>), "end", Consumed + 1)
       ELSE LET data == Split(Head(stream), TAB) IN Emit(RowKeyValue(data[1], data), "row", Consumed + 1)
    /\ UNCHANGED <<text, idents, pc, err, extractVars>>

\* mutant: the inner loop also stops when the lines run out
DataUnderflowSilent ==
    /\ pc = "block"
    /\ ~EndsWith(line, END)
    /\ Len(stream) = 0
    /\ pc' = "loop"
    /\ UNCHANGED <<text, stream, line, idents, tokens, origin, source, err, extractVars>>

\* stream.popleft() on the empty deque
DataUnderflow ==
    /\ pc = "block"
    /\ ~EndsWith(line, END)
    /\ Len(stream) = 0
    /\ Raise(IndexError("pop from an empty deque"))
    /\ UNCHANGED <<text, stream, line, idents, extractVars>>

DataEnd ==
    /\ pc = "block"
    /\ EndsWith(line, END)
    /\ pc' = "loop"
    /\ UNCHANGED <<text, stream, line, idents, tokens, origin, source, err, extractVars>>

\* mutant: the empty line is looked at but not taken off the deque
SkipEmptyPeek ==
    /\ pc = "loop"
    /\ Len(stream) > 0
    /\ Classify(Head(stream)) = "item"
    /\ Head(stream) = <<>>
    /\ line' = Head(stream)
    /\ UNCHANGED <<text, stream, idents, pc, tokens, origin, source, err, extractVars>>

SkipEmpty ==
    /\ PopLine("item")
    /\ Head(stream) = <<>>
    /\ UNCHANGED <<text, idents, pc, tokens, origin, source, err, extractVars>>

ItemLine ==
    /\ PopLine("item")
    /\ Head(stream) # <<>>
    /\ \E r \in {ItemResult(Head(stream))} :
         IF r.ok
         THEN Emit(r.token, r.site, Consumed + 1) /\ pc' = "loop" /\ UNCHANGED err
         ELSE Raise(r.err)
    /\ UNCHANGED <<text, idents, extractVars>>

\* mutant: the closing "#ENDSECTION" is not yielded at the end of the input
EndSectionOmitted ==
    /\ pc = "loop"
    /\ Len(stream) = 0
    /\ pc' = "eof"
    /\ UNCHANGED <<text, stream, line, idents, tokens, origin, source, err, extractVars>>

\* mutant: the two closing sentinels are yielded in the opposite order
EndSectionSwapped ==
    /\ pc = "loop"
    /\ Len(stream) = 0
    /\ Emit(KeyValue(ENDFILE, <<NL>>), "eof_endsection", Consumed)
    /\ pc' = "eof"
    /\ UNCHANGED <<text, stream, line, idents, err, extractVars>>

EndSection ==
    /\ pc = "loop"
    /\ Len(stream) = 0
    /\ Emit(KeyValue(ENDSECTION, <<NL>>), "eof_endsection", Consumed)
    /\ pc' = "eof"
    /\ UNCHANGED <<text, stream, line, idents, err, extractVars>>

EndFile ==
    /\ pc = "eof"
    /\ Emit(KeyValue(ENDFILE, <<NL>>), "endfile", Consumed)
    /\ pc' = "endfile"
    /\ UNCHANGED <<text, stream, line, idents, err, extractVars>>

\* the generator returns: the caller's next() raises StopIteration
Exhausted ==
    /\ pc = "endfile"
    /\ pc' = "done"
    /\ UNCHANGED <<text, stream, line, idents, tokens, origin, source, err, extractVars>>

Next ==
    \/ Header
    \/ HeaderSkip
    \/ HeaderKeyValue
    \/ HeaderRaise
    \/ HeaderEnd
    \/ SubjectSampleFactorsHeader
    \/ SubjectSampleFactorsMarker
    \/ SectionHeader
    \/ SectionMarker
    \/ SubjectSampleFactorsLine
    \/ DataStart
    \/ DataLine
    \/ DataUnderflow
    \/ DataEnd
    \/ SkipEmpty
    \/ ItemLine
    \/ EndSection
    \/ EndFile
    \/ Exhausted

Spec == Init /\ [][Next]_vars

\* the caller keeps pulling: a generator that can step does step
FairSpec == Spec /\ WF_vars(Next)

(***************************************************************************)
(* The tokenizer on record lines only: texts of up to MaxLines item and    *)
(* SUBJECT_SAMPLE_FACTORS lines, whose fields exercise the splitting and   *)
(* the key normalisation of lines 62-110.                                  *)
(***************************************************************************)
\* "k\tv\tw"
LineTwoTabs == <<"k",TAB,"v",TAB,"w">>

\* "PR:T\tv"
LinePrefixed == <<"P","R",":","T",TAB,"v">>

\* " PR:T\tv"
LinePaddedPrefixed == <<" ","P","R",":","T",TAB,"v">>

\* "k \t v"
LinePaddedKey == <<"k"," ",TAB," ","v">>

\* "MS_METABOLITE_DATA:UNITS\tv"
LineUnits == <<"M","S">> \o METABOLITE_DATA_UNITS \o <<TAB,"v">>

\* "SUBJECT_SAMPLE_FACTORS\th\ts\tA:1| A : 2\tR=a"
LineSSFRepeat ==
    SSF \o <<TAB,"h",TAB,"s",TAB,"A",":","1","|"," ","A"," ",":"," ","2",TAB,"R","=","a">>

\* "SUBJECT_SAMPLE_FACTORS\th\ts\tT:1:2\tR=a"
LineSSFColons == SSF \o <<TAB,"h",TAB,"s",TAB,"T",":","1",":","2",TAB,"R","=","a">>

\* "MS_RESULTS_FILE\tf"
LineResults == <<"M","S">> \o RESULTS_FILE \o <<TAB,"f">>

\* "MS_RESULTS_FILE\tf\tU:p\tz\tH:y"
LineResultsExtra ==
    <<"M","S">> \o RESULTS_FILE \o <<TAB,"f",TAB,"U",":","p",TAB,"z",TAB,"H",":","y">>

\* "MS_RESULTS_FILE\tf\tU:p:q"
LineResultsColons == <<"M","S">> \o RESULTS_FILE \o <<TAB,"f",TAB,"U",":","p",":","q">>

RecordLines ==
    { LineKeyValue, LineTwoTabs, LinePrefixed, LinePaddedPrefixed, LinePaddedKey,
      LineUnits, LineSSF, LineSSFFactor, LineSSFRepeat, LineSSFColons,
      LineResults, LineResultsExtra, LineResultsColons }

LineTexts == { Join(ls) : ls \in UNION { [1..n -> RecordLines] : n \in 1..MaxLines } }

LineInit ==
    /\ text \in LineTexts
    /\ stream = Split(text, NL)
    /\ line = <<>>
    /\ idents = <<>>
    /\ pc = "loop"
    /\ tokens = <<>>
    /\ origin = <<>>
    /\ source = <<>>
    /\ err = NoError
    /\ ExtractIdle

LineNext ==
    \/ SubjectSampleFactorsLine
    \/ ItemLine
    \/ EndSection
    \/ EndFile
    \/ Exhausted

LineSpec == LineInit /\ [][LineNext]_vars

(***************************************************************************)
(* mwextract.extract_metabolites (src/mwtab/mwextract.py).  A file is what  *)
(* the function reads of an MWTabFile: its study_id and analysis_id, the   *)
(* items the matchers look up, the list under METABOLITES /                *)
(* METABOLITES_START / DATA (names) and the list of dicts under            *)
(* MS_METABOLITE_DATA / MS_METABOLITE_DATA_START / DATA (data).  A dict of *)
(* that list is a sequence of <<key, value>> pairs in insertion order.     *)
(***************************************************************************)
MaxFiles == 2

\* ItemMatcher.section_conversion
SectionConversion(code) ==
    CASE code = <<"P","R">> -> "PROJECT"
      [] code = <<"S","T">> -> "STUDY"
      [] code = <<"S","U">> -> "SUBJECT"
      [] code = <<"C","O">> -> "COLLECTION"
      [] code = <<"T","R">> -> "TREATMENT"
      [] code = <<"S","P">> -> "SAMPLEPREP"
      [] code = <<"C","H">> -> "CHROMATOGRAPHY"
      [] code = <<"A","N">> -> "ANALYSIS"
      [] code = <<"M","S">> -> "MS"
      [] code = <<"N","M">> -> "NMR"

\* ItemMatcher.__init__
ItemMatcher(full_key, value_comparison) ==
    LET p == Split(full_key, ":") IN
    [section |-> SectionConversion(p[1]), key |-> p[2],
     value_comparison |-> value_comparison]

\* ItemMatcher.__call__
Match(matcher, mwtabfile) ==
    mwtabfile.sections[matcher.section][matcher.key] = matcher.value_comparison

\* the list comprehension that builds the matchers
Matchers(kw) == [ i \in 1..Len(kw.key) |-> ItemMatcher(kw.key[i], kw.value[i]) ]

\* all(matcher(mwtabfile) for matcher in matchers)
AllMatch(kw, mwtabfile) ==
    \A i \in 1..Len(kw.key) : Match(Matchers(kw)[i], mwtabfile)

\* data_list[k]
Get(data_list, k) ==
    data_list[CHOOSE i \in 1..Len(data_list) : data_list[i][1] = k][2]

IsSampleKey(pair) == pair[1] # "metabolite_name"

\* [k for k in data_list.keys() if k != "metabolite_name"]
SampleKeys(data_list) ==
    LET kept == SelectSeq(data_list, IsSampleKey) IN
    [ i \in 1..Len(kept) |-> kept[i][1] ]

\* float(v) of the values of the model; any other text raises ValueError
IsFloat(v) == v \in {"0", "1"}

Float(v) == IF v = "1" THEN 1 ELSE 0

\* d.setdefault(name, dict()).setdefault(study, dict())
\*  .setdefault(analysis, set()).add(k)
AddSample(d, name, study, analysis, k) ==
    LET d1 == IF name \in DOMAIN d THEN d[name] ELSE EmptyDict
        d2 == IF study \in DOMAIN d1 THEN d1[study] ELSE EmptyDict
        d3 == IF analysis \in DOMAIN d2 THEN d2[analysis] ELSE {}
    IN  DictPut(d, name, DictPut(d1, study, DictPut(d2, analysis, d3 \cup {k})))

\* for k in sample_keys
RECURSIVE OverSampleKeys(_, _, _, _, _)
OverSampleKeys(d, mwtabfile, name, data_list, ks) ==
    IF Len(ks) = 0 THEN d
    ELSE OverSampleKeys(
             IF Float(Get(data_list, Head(ks))) > 0
             THEN AddSample(d, name, mwtabfile.study_id, mwtabfile.analysis_id, Head(ks))
             ELSE d,
             mwtabfile, name, data_list, Tail(ks))

\* for data_list in mwtabfile["MS_METABOLITE_DATA"]["MS_METABOLITE_DATA_START"]["DATA"]
RECURSIVE OverDataLists(_, _, _, _)
OverDataLists(d, mwtabfile, name, rows) ==
    IF Len(rows) = 0 THEN d
    ELSE OverDataLists(
             OverSampleKeys(d, mwtabfile, name, Head(rows), SampleKeys(Head(rows))),
             mwtabfile, name, Tail(rows))

\* for metabolite in mwtabfile["METABOLITES"]["METABOLITES_START"]["DATA"]
RECURSIVE OverMetabolites(_, _, _)
OverMetabolites(d, mwtabfile, names) ==
    IF Len(names) = 0 THEN d
    ELSE OverMetabolites(OverDataLists(d, mwtabfile, Head(names), mwtabfile.data),
                         mwtabfile, Tail(names))

\* some float(data_list[k]) the loops reach raises
FloatRaises(mwtabfile) ==
    /\ Len(mwtabfile.names) > 0
    /\ \E r \in 1..Len(mwtabfile.data) : \E i \in 1..Len(mwtabfile.data[r]) :
         /\ IsSampleKey(mwtabfile.data[r][i])
         /\ ~IsFloat(mwtabfile.data[r][i][2])

\* the inputs: files with two metabolites and two samples
DataList(name, v1, v2) == << <<"metabolite_name", name>>, <<"s1", v1>>, <<"s2", v2>> >>

DataLists ==
    { <<DataList("m1", "0", "0"), DataList("m2", "0", "0")>>,
      <<DataList("m1", "1", "0"), DataList("m2", "0", "0")>>,
      <<DataList("m1", "0", "0"), DataList("m2", "1", "0")>>,
      <<DataList("m1", "1", "0"), DataList("m2", "0", "1")>>,
      <<DataList("m1", "NA", "0"), DataList("m2", "1", "0")>> }

MWTabFile(analysis_id, title, names, data) ==
    [study_id |-> "ST1", analysis_id |-> analysis_id,
     sections |-> [ section \in {"STUDY"} |-> [ key \in {<<"T">>} |-> title ] ],
     names |-> names, data |-> data]

Files ==
    { MWTabFile(an, t, ns, d) :
          an \in {"AN1", "AN2"}, t \in {"a", "b"},
          ns \in { <<"m1", "m2">>, <<"m1">> }, d \in DataLists }

\* "ST:T"
KeyStudyT == <<"S","T",":","T">>

Kwargs ==
    { [key |-> <<>>, value |-> <<>>],
      [key |-> <<KeyStudyT>>, value |-> <<"a">>],
      [key |-> <<KeyStudyT, KeyStudyT>>, value |-> <<"a", "b">>] }

\* tokenizer has not been called
TokenizerIdle ==
    /\ text = <<>>
    /\ stream = <<>>
    /\ line = <<>>
    /\ idents = <<>>
    /\ pc = "idle"
    /\ tokens = <<>>
    /\ origin = <<>>
    /\ source = <<>>
    /\ err = NoError

ExtractInit ==
    /\ mwfiles \in UNION { [1..n -> Files] : n \in 0..MaxFiles }
    /\ kwargs \in Kwargs
    /\ findex = 0
    /\ metabolites = EmptyDict
    /\ xpc = "loop"
    /\ TokenizerIdle

\* the generator hands over the next file
NextFile ==
    /\ xpc = "loop"
    /\ findex < Len(mwfiles)
    /\ findex' = findex + 1

\* a file some matcher rejects
ExtractSkip ==
    /\ NextFile
    /\ ~AllMatch(kwargs, mwfiles[findex + 1])
    /\ UNCHANGED <<mwfiles, kwargs, metabolites, xpc, tokenizerVars>>

\* a file every matcher accepts: the three nested loops
ExtractFile ==
    /\ NextFile
    /\ AllMatch(kwargs, mwfiles[findex + 1])
    /\ ~FloatRaises(mwfiles[findex + 1])
    /\ metabolites' =
           OverMetabolites(metabolites, mwfiles[findex + 1], mwfiles[findex + 1].names)
    /\ UNCHANGED <<mwfiles, kwargs, xpc, tokenizerVars>>

\* float() raises ValueError: the function is left without a result
ExtractRaise ==
    /\ NextFile
    /\ AllMatch(kwargs, mwfiles[findex + 1])
    /\ FloatRaises(mwfiles[findex + 1])
    /\ xpc' = "error"
    /\ metabolites' = EmptyDict
    /\ UNCHANGED <<mwfiles, kwargs, tokenizerVars>>

\* return metabolites
ExtractReturn ==
    /\ xpc = "loop"
    /\ findex = Len(mwfiles)
    /\ xpc' = "returned"
    /\ UNCHANGED <<mwfiles, kwargs, findex, metabolites, tokenizerVars>>

ExtractNext ==
    \/ ExtractSkip
    \/ ExtractFile
    \/ ExtractRaise
    \/ ExtractReturn

ExtractSpec == ExtractInit /\ [][ExtractNext]_vars

(***************************************************************************)
(* Vocabulary of the properties.                                           *)
(***************************************************************************)
\* the last token has been yielded, or the generator has returned
Completed == pc \in {"endfile", "done"}

\* a KeyValue(k, "\n")
IsMarker(t, k) ==
    t.type = "KeyValue" /\ t.vtype = "str" /\ t.key = k /\ t.value = <<NL>>

\* a data-block row: a KeyValue whose value is a tuple
IsRow(t) == t.type = "KeyValue" /\ t.vtype = "tuple"

Last(s) == s[Len(s)]

(***************************************************************************)
(* C1                                                                      *)
(***************************************************************************)
\* C1: whenever the tokenizer has run to completion, the last two tokens it
\* emitted are KeyValue("#ENDSECTION", "\n") and then KeyValue("!#ENDFILE", "\n"),
\* with or without an end marker line in the input, and for the empty input.
C1_EndsWithSentinels ==
    Completed =>
        /\ Len(tokens) >= 2
        /\ IsMarker(tokens[Len(tokens) - 1], ENDSECTION)
        /\ IsMarker(tokens[Len(tokens)], ENDFILE)

\* a completed run over an input with content and no line beginning with "#"
C1_Witness ==
    /\ pc = "done"
    /\ Len(tokens) > 2
    /\ \A i \in 1..Len(Split(text, NL)) : ~StartsWith(Split(text, NL)[i], <<"#">>)

(***************************************************************************)
(* C2                                                                      *)
(***************************************************************************)
\* C2 as stated: in a completed stream every token whose key ends in "_START"
\* has exactly one later token keyed with the same prefix and "_END", only row
\* tokens lie between the two, and none of them has a key ending in "_START"
\* or "_END".
C2_Original ==
    Completed =>
        \A i \in 1..Len(tokens) :
            EndsWith(tokens[i].key, START) =>
                LET k   == tokens[i].key
                    pre == SubSeq(k, 1, Len(k) - Len(START))
                    J   == { j \in (i + 1)..Len(tokens) : tokens[j].key = pre \o END }
                IN  /\ Cardinality(J) = 1
                    /\ \A j \in J : \A m \in (i + 1)..(j - 1) :
                           /\ IsRow(tokens[m])
                           /\ ~EndsWith(tokens[m].key, START)
                           /\ ~EndsWith(tokens[m].key, END)

\* C2 as amended: in a completed stream every block-open marker (the token
\* yielded for a line classified as a block opener) is followed by a close
\* marker whose key ends in "_END", whatever its prefix; strictly between the
\* two lie only row tokens, none of them made from a line ending in "_END";
\* and every close marker closes such a block.  Blocks do not nest.
C2_BlocksClosed ==
    Completed =>
        /\ \A i \in 1..Len(tokens) :
               origin[i] = "start" =>
                   \E j \in (i + 1)..Len(tokens) :
                       /\ origin[j] = "end"
                       /\ IsMarker(tokens[j], tokens[j].key)
                       /\ EndsWith(tokens[j].key, END)
                       /\ \A m \in (i + 1)..(j - 1) :
                              /\ origin[m] = "row"
                              /\ IsRow(tokens[m])
                              /\ ~EndsWith(Last(tokens[m].value), END)
        /\ \A j \in 1..Len(tokens) :
               origin[j] = "end" =>
                   \E i \in 1..(j - 1) :
                       /\ origin[i] = "start"
                       /\ \A m \in (i + 1)..(j - 1) : origin[m] = "row"

\* a completed stream with a block closed by an _END line of another name,
\* holding a row whose key ends in "_START"
C2_Witness ==
    /\ pc = "done"
    /\ \E i \in 1..Len(tokens) : \E j \in (i + 2)..Len(tokens) :
           /\ origin[i] = "start" /\ tokens[i].key = LineStart
           /\ origin[i + 1] = "row" /\ EndsWith(tokens[i + 1].key, START)
           /\ origin[j] = "end" /\ tokens[j].key = LineOtherEnd

(***************************************************************************)
(* C3                                                                      *)
(***************************************************************************)
\* inside a data block that no remaining line closes
Unclosed ==
    /\ pc = "block"
    /\ ~EndsWith(line, END)
    /\ \A i \in 1..Len(stream) : ~EndsWith(stream[i], END)

\* a block opener is about to be consumed and no later line ends in "_END"
OpensUnclosed ==
    /\ pc = "loop"
    /\ Len(stream) > 0
    /\ Classify(Head(stream)) = "start"
    /\ \A i \in 2..Len(stream) : ~EndsWith(stream[i], END)

\* C3: when a line classified as a block opener is followed by no line ending
\* in "_END", every later step of the run consumes one more line as a row of
\* that block, until the input is exhausted and the run ends in an error: the
\* closing "#ENDSECTION" / "!#ENDFILE" pair is never emitted and the generator
\* never returns normally.
C3_UnclosedBlockRaises ==
    [][ /\ OpensUnclosed => Unclosed'
        /\ Unclosed =>
              \/ /\ Unclosed'
                 /\ Len(stream') < Len(stream)
                 /\ Len(origin') = Len(origin) + 1
                 /\ Last(origin') = "row"
              \/ /\ Len(stream) = 0
                 /\ pc' = "error"
                 /\ err'.type # "none"
                 /\ tokens' = tokens
        /\ pc = "error" => pc' = "error" /\ tokens' = tokens
      ]_vars

\* a run that ended in the error of an unclosed block, after at least one row
C3_Witness ==
    /\ pc = "error"
    /\ err = IndexError("pop from an empty deque")
    /\ Len(origin) >= 2
    /\ Last(origin) = "row"

(***************************************************************************)
(* C4                                                                      *)
(***************************************************************************)
\* the yield statements that open a section
Openers == {"header", "ssf_marker", "section"}

\* the yield statements that close one
Closers == {"endsection", "eof_endsection"}

\* the index of the first section-opening token after token i, or one past the end
NextOpener(i) ==
    IF \E j \in (i + 1)..Len(tokens) : origin[j] \in Openers
    THEN CHOOSE j \in (i + 1)..Len(tokens) :
             /\ origin[j] \in Openers
             /\ \A m \in (i + 1)..(j - 1) : origin[m] \notin Openers
    ELSE Len(tokens) + 1

\* C4 as stated: in a completed stream every section-opening token is followed,
\* before the next section-opening token or the end of the stream, by exactly
\* one token keyed "#ENDSECTION".
C4_Original ==
    Completed =>
        \A i \in 1..Len(tokens) :
            origin[i] \in Openers =>
                Cardinality({ m \in (i + 1)..(NextOpener(i) - 1) :
                                 tokens[m].key = ENDSECTION }) = 1

\* C4 as amended: in a completed stream every section-opening token is
\* followed, before the next section-opening token or the end of the stream,
\* by exactly one "#ENDSECTION" sentinel, unless the next section-opening token
\* is the file-header marker, which is yielded without an "#ENDSECTION" before
\* it: then no sentinel lies between the two.
C4_SectionsClosed ==
    Completed =>
        \A i \in 1..Len(tokens) :
            origin[i] \in Openers =>
                LET j == NextOpener(i)
                    n == Cardinality({ m \in (i + 1)..(j - 1) :
                                          /\ origin[m] \in Closers
                                          /\ IsMarker(tokens[m], ENDSECTION) })
                IN  n = IF j <= Len(tokens) /\ origin[j] = "header" THEN 0 ELSE 1

\* a completed stream in which a section is followed by the file header and
\* the file header by another section
C4_Witness ==
    /\ pc = "done"
    /\ \E i \in 1..Len(tokens) :
           /\ origin[i] = "section"
           /\ NextOpener(i) <= Len(tokens)
           /\ origin[NextOpener(i)] = "header"
           /\ NextOpener(NextOpener(i)) <= Len(tokens)

(***************************************************************************)
(* C5                                                                      *)
(***************************************************************************)
\* a non-empty line without a tab that the main loop classifies as an item line
TablessItem(l) ==
    /\ l # <<>>
    /\ ~StartsWith(l, <<"#">>)
    /\ ~StartsWith(l, SSF)
    /\ ~EndsWith(l, START)
    /\ ~HasChar(l, TAB)

\* C5: when the main loop consumes a non-empty item line that holds no tab, the
\* run ends in an error at that line: the line is consumed, no token is emitted
\* for it, and once the error is raised no token is emitted any more.
C5_TablessItemRaises ==
    [][ /\ (pc = "loop" /\ Len(stream) > 0 /\ TablessItem(Head(stream))) =>
               /\ pc' = "error"
               /\ err'.type # "none"
               /\ line' = Head(stream)
               /\ stream' = Tail(stream)
               /\ tokens' = tokens
        /\ pc = "error" => (pc' = "error" /\ tokens' = tokens /\ stream' = stream)
      ]_vars

\* the error of a tabless item line that follows lines that produced tokens
C5_Witness ==
    /\ pc = "error"
    /\ TablessItem(line)
    /\ err = LineError(line, "not enough values to unpack")
    /\ Len(tokens) > 0

(***************************************************************************)
(* C6                                                                      *)
(***************************************************************************)
\* the for loop of a header line is about to visit an identifier
AtIdentifier == pc = "header" /\ Len(idents) > 0

CountChar(s, c) == Cardinality({ i \in 1..Len(s) : s[i] = c })

\* C6 as stated: on a "#METABOLOMICS WORKBENCH" line an identifier without ":"
\* is a fatal error that reports the line.
C6_Original ==
    [][ (AtIdentifier /\ CountChar(Head(idents), ":") = 0) =>
            (pc' = "error" /\ err'.line = Repr(line)) ]_vars

\* C6 as amended: on a "#METABOLOMICS WORKBENCH" line an identifier without ":"
\* is skipped silently (no token, no error); an identifier with exactly one ":"
\* yields one KeyValue of the text before and the text after the ":"; an
\* identifier with two or more ":" is a fatal error that reports the line, and
\* no token is emitted for it.
C6_IdentifierOutcome ==
    [][ AtIdentifier =>
            LET id == Head(idents)
                n  == CountChar(id, ":")
                c  == FirstIndex(id, ":")
            IN  /\ StartsWith(line, HEADER)
                /\ n = 0 =>
                       /\ pc' = "header" /\ err' = NoError
                       /\ tokens' = tokens
                       /\ idents' = Tail(idents)
                /\ n = 1 =>
                       /\ pc' = "header" /\ err' = NoError
                       /\ tokens' = Append(tokens,
                              KeyValue(SubSeq(id, 1, c - 1), SubSeq(id, c + 1, Len(id))))
                       /\ idents' = Tail(idents)
                /\ n >= 2 =>
                       /\ pc' = "error"
                       /\ err'.type = "ValueError" /\ err'.line = Repr(line)
                       /\ tokens' = tokens
      ]_vars

\* a header line whose identifiers were all visited: three without ":" were
\* skipped and the last one yielded a token
C6_Witness ==
    /\ pc = "header"
    /\ line = LineHeader
    /\ Len(idents) = 0
    /\ err = NoError
    /\ Last(origin) = "identifier"
    /\ Cardinality({ i \in 1..Len(origin) : origin[i] = "identifier" }) = 1

(***************************************************************************)
(* C7                                                                      *)
(***************************************************************************)
\* C7: whenever tokenization fails, the error delivered to the caller carries
\* the text of the offending line (its repr) together with the underlying cause.
C7_ErrorCarriesLine ==
    pc = "error" =>
        /\ err.type = "ValueError"
        /\ err.line = Repr(line)
        /\ err.cause # ""

(***************************************************************************)
(* C8                                                                      *)
(***************************************************************************)
\* C8 as stated: when tokenization fails the caller has received no token.
C8_Original == pc = "error" => tokens = <<>>

\* C8 as amended: tokenization is lazy, not all-or-nothing.  The step that
\* raises the error emits no token and retracts none: the caller keeps every
\* token emitted for the lines (and header identifiers) before the malformed
\* one, and the closing "#ENDSECTION" / "!#ENDFILE" pair is not among them.
C8_ErrorKeepsEmitted ==
    [][ pc' = "error" =>
            /\ tokens' = tokens
            /\ origin' = origin
            /\ \A i \in 1..Len(origin') : origin'[i] \notin {"eof_endsection", "endfile"}
      ]_vars

\* a failed run whose caller has already received tokens
C8_Witness ==
    /\ pc = "error"
    /\ err.type = "ValueError"
    /\ Len(tokens) >= 2

(***************************************************************************)
(* C9                                                                      *)
(***************************************************************************)
Terminal == pc \in {"done", "error"}

\* C9: a caller that keeps pulling reaches a terminal outcome: either the
\* generator returns after "!#ENDFILE" with no error, or an error is raised
\* and "!#ENDFILE" was never emitted; never both, and after either one nothing
\* changes any more.
C9_Terminates ==
    /\ <>Terminal
    /\ [](pc = "done" =>
              /\ err = NoError
              /\ Len(tokens) > 0
              /\ IsMarker(Last(tokens), ENDFILE)
              /\ Len(stream) = 0)
    /\ [](pc = "error" =>
              /\ err # NoError
              /\ \A i \in 1..Len(origin) : origin[i] # "endfile")
    /\ [][Terminal => (pc' = pc /\ tokens' = tokens)]_vars

\* a run that returned after emitting tokens for every line of a full input
C9_Witness ==
    /\ pc = "done"
    /\ Len(Split(text, NL)) = MaxLines
    /\ Len(tokens) >= MaxLines + 2

(***************************************************************************)
(* C10                                                                     *)
(***************************************************************************)
\* C10 as stated: a token whose key is "!#ENDFILE" is always the last token
\* emitted so far.
C10_Original ==
    \A i \in 1..Len(tokens) : tokens[i].key = ENDFILE => i = Len(tokens)

\* C10 as amended: the sentinel KeyValue("!#ENDFILE", "\n") is yielded only
\* by the final yield statement, no token is emitted after it, and a completed
\* stream holds exactly one; a token with the key "!#ENDFILE" and another
\* value is an ordinary token made from an input line and may occur anywhere.
C10_SentinelLast ==
    /\ \A i \in 1..Len(tokens) :
           IsMarker(tokens[i], ENDFILE) =>
               (i = Len(tokens) /\ origin[i] = "endfile" /\ Completed)
    /\ Completed =>
           Cardinality({ i \in 1..Len(tokens) : IsMarker(tokens[i], ENDFILE) }) = 1

\* a completed stream that also holds an item token keyed "!#ENDFILE"
C10_Witness ==
    /\ pc = "done"
    /\ IsMarker(Last(tokens), ENDFILE)
    /\ \E i \in 1..(Len(tokens) - 1) :
           tokens[i].key = ENDFILE /\ origin[i] = "item"

(***************************************************************************)
(* C11: the tokens come out in the order of the input lines.               *)
(***************************************************************************)
\* the lines of the input, in order
InputLines == Split(text, NL)

\* the tokens a line gave rise to (the two closing sentinels belong to no line)
FromLine(i) == origin[i] \notin {"eof_endsection", "endfile"}

\* C11: the lines are consumed once each and in input order (what is left on
\* the deque is always the input without the lines consumed so far, and the
\* current line is the last one consumed); a token of an earlier line is
\* never emitted after a token of a later line; the rows of a data block are
\* made from successive lines, each from its own line.
C11_LineOrder ==
    LET lines == InputLines IN
    /\ Consumed \in 0..Len(lines)
    /\ stream = SubSeq(lines, Consumed + 1, Len(lines))
    /\ Consumed > 0 => line = lines[Consumed]
    /\ Len(source) = Len(tokens)
    /\ \A i \in 1..Len(tokens) :
         /\ FromLine(i) => source[i] \in 1..Consumed
         /\ origin[i] = "row" => tokens[i].value = Split(lines[source[i]], TAB)
         /\ \A j \in 1..Len(tokens) :
              /\ i < j => source[i] <= source[j]
              /\ i < j /\ origin[i] = "row" /\ origin[j] = "row" => source[i] < source[j]

\* two different rows of one data block, made from two successive lines
C11_Witness ==
    /\ pc = "block"
    /\ \E i \in 1..Len(tokens) : \E j \in 1..Len(tokens) :
         /\ i < j
         /\ origin[i] = "row" /\ origin[j] = "row"
         /\ tokens[i] # tokens[j]
         /\ source[i] < source[j]

(***************************************************************************)
(* C12                                                                     *)
(***************************************************************************)
\* a non-empty item line without "_RESULTS_FILE"
PlainItem(l) == Classify(l) = "item" /\ l # <<>> /\ ~Contains(l, RESULTS_FILE)

\* the text of l after its first c
AfterFirst(l, c) == SubSeq(l, FirstIndex(l, c) + 1, Len(l))

\* the tokens made from the n-th line of the input
TokensOf(n) == { i \in 1..Len(tokens) : source[i] = n /\ FromLine(i) }

\* the n-th line gave exactly one KeyValue, whose value is all the text after
\* the first tab of the line
OneKeyValueAfterFirstTab(n) ==
    /\ Cardinality(TokensOf(n)) = 1
    /\ \A i \in TokensOf(n) :
         /\ tokens[i].type = "KeyValue"
         /\ tokens[i].vtype = "str"
         /\ tokens[i].value = AfterFirst(InputLines[n], TAB)

\* C12 as stated: an item line without "_RESULTS_FILE" that has one or more
\* tabs is split on its first tab only: it gives exactly one KeyValue whose
\* value is all the text after the first tab, and no error.
C12_Original ==
    \A n \in 1..Consumed :
        (PlainItem(InputLines[n]) /\ CountChar(InputLines[n], TAB) >= 1) =>
            (OneKeyValueAfterFirstTab(n) /\ ~(n = Consumed /\ pc = "error"))

\* C12: an item line without "_RESULTS_FILE" is split on every tab and must
\* have exactly two fields: with exactly one tab it gives exactly one KeyValue
\* whose value is all the text after the tab; with two or more tabs it gives
\* no token and the run ends with the ValueError that reports the line.
C12_SplitOnEveryTab ==
    \A n \in 1..Consumed :
        PlainItem(InputLines[n]) =>
            /\ CountChar(InputLines[n], TAB) = 1 =>
                 (OneKeyValueAfterFirstTab(n) /\ ~(n = Consumed /\ pc = "error"))
            /\ CountChar(InputLines[n], TAB) >= 2 =>
                 /\ TokensOf(n) = {}
                 /\ n = Consumed
                 /\ pc = "error"
                 /\ err.type = "ValueError"
                 /\ err.line = Repr(InputLines[n])
                 /\ err.cause = "too many values to unpack"

\* a line with one tab gave its token, then a line with two tabs stopped the run
C12_Witness ==
    /\ Consumed = 2
    /\ PlainItem(InputLines[1]) /\ CountChar(InputLines[1], TAB) = 1
    /\ Cardinality(TokensOf(1)) = 1
    /\ PlainItem(InputLines[2]) /\ CountChar(InputLines[2], TAB) = 2
    /\ pc = "error"

(***************************************************************************)
(* C13                                                                     *)
(***************************************************************************)
\* the text of l before its first c
BeforeFirst(l, c) == SubSeq(l, 1, FirstIndex(l, c) - 1)

\* a line of the form key<TAB>value without "_RESULTS_FILE"
KeyTabValue(l) == PlainItem(l) /\ CountChar(l, TAB) = 1

\* the n-th line gave one token, with key k and the text after the tab as value
GaveKeyValue(n, k) ==
    /\ Cardinality(TokensOf(n)) = 1
    /\ \A i \in TokensOf(n) :
         /\ tokens[i].type = "KeyValue"
         /\ tokens[i].vtype = "str"
         /\ tokens[i].key = k
         /\ tokens[i].value = AfterFirst(InputLines[n], TAB)

\* C13 as stated: for a line key<TAB>value without "_RESULTS_FILE", a key with
\* ":" that ends with "_METABOLITE_DATA:UNITS" becomes "Units", any other key
\* with ":" loses its first three characters, a key without ":" is trimmed,
\* and the value is passed through unchanged.
C13_Original ==
    \A n \in 1..Consumed :
        KeyTabValue(InputLines[n]) =>
            LET key == BeforeFirst(InputLines[n], TAB) IN
            GaveKeyValue(n,
                IF HasChar(key, ":")
                THEN IF EndsWith(key, METABOLITE_DATA_UNITS) THEN UNITS ELSE From3(key)
                ELSE Strip(key))

\* C13: for a line key<TAB>value without "_RESULTS_FILE", a key with ":" that
\* ends with "_METABOLITE_DATA:UNITS" becomes "Units", any other key with ":"
\* is trimmed and then loses its first three characters, a key without ":"
\* is trimmed, and the value is passed through unchanged.
C13_KeyNormalised ==
    \A n \in 1..Consumed :
        KeyTabValue(InputLines[n]) =>
            LET key == BeforeFirst(InputLines[n], TAB) IN
            GaveKeyValue(n,
                IF HasChar(key, ":")
                THEN IF EndsWith(key, METABOLITE_DATA_UNITS) THEN UNITS
                     ELSE From3(Strip(key))
                ELSE Strip(key))

\* a units line, a prefixed key with leading white space and a padded key
\* without ":" have all been tokenized
C13_Witness ==
    /\ Consumed = 3
    /\ InputLines = <<LineUnits, LinePaddedPrefixed, LinePaddedKey>>
    /\ Len(tokens) = 3
    /\ tokens[1].key = UNITS
    /\ tokens[2].key = <<"T">>
    /\ tokens[3].key = <<"k">>
    /\ tokens[3].value = <<" ", "v">>

(***************************************************************************)
(* C14                                                                     *)
(***************************************************************************)
\* a SUBJECT_SAMPLE_FACTORS line with exactly 5 tab-separated fields
FiveFieldRecord(l) == Classify(l) = "ssf" /\ CountChar(l, TAB) = 4

\* the factors map a field of "|"-separated segments stands for when every
\* segment is cut at its first ":" and a later segment overwrites an earlier
\* one with the same key
FactorsByFirstColon(field) ==
    LET segs     == Split(field, "|")
        idx      == { i \in 1..Len(segs) : HasChar(segs[i], ":") }
        keyOf(i) == Strip(BeforeFirst(segs[i], ":"))
    IN  [ k \in { keyOf(i) : i \in idx } |->
            LET last == CHOOSE i \in idx :
                            keyOf(i) = k /\ \A j \in idx : keyOf(j) = k => j <= i
            IN  Strip(AfterFirst(segs[last], ":")) ]

\* C14: every SUBJECT_SAMPLE_FACTORS line with exactly 5 tab-separated fields
\* gives exactly one SubjectSampleFactors token, whose factors map takes, for
\* each "|"-separated segment of the fourth field, the trimmed text before the
\* segment's first ":" to the trimmed text after that first ":" (the whole
\* rest of the segment), a later segment winning over an earlier one with the
\* same key.
C14_FactorsByFirstColon ==
    \A n \in 1..Consumed :
        FiveFieldRecord(InputLines[n]) =>
            /\ Cardinality(TokensOf(n)) = 1
            /\ \A i \in TokensOf(n) :
                 /\ tokens[i].type = "SubjectSampleFactors"
                 /\ tokens[i].factors = FactorsByFirstColon(Split(InputLines[n], TAB)[4])

(***************************************************************************)
(* C15                                                                     *)
(***************************************************************************)
\* an item line containing "_RESULTS_FILE" with more than two tab-separated fields
ResultsRecord(l) ==
    Classify(l) = "item" /\ Contains(l, RESULTS_FILE) /\ CountChar(l, TAB) >= 2

HasColon(field) == HasChar(field, ":")

\* the fields beyond the second that contain ":", in field order
AnnotationFields(l) == SelectSeq(From2(Split(l, TAB)), HasColon)

\* C15: an item line containing "_RESULTS_FILE" with more than two
\* tab-separated fields gives a KeyValueExtra whose extra has one element per
\* field beyond the second that contains ":", in field order, every element
\* being a pair of exactly two strings; fields without ":" contribute nothing.
C15_ExtraPairs ==
    \A n \in 1..Consumed :
        ResultsRecord(InputLines[n]) =>
            /\ Cardinality(TokensOf(n)) = 1
            /\ \A i \in TokensOf(n) :
                 /\ tokens[i].type = "KeyValueExtra"
                 /\ Len(tokens[i].extra) = Len(AnnotationFields(InputLines[n]))
                 /\ \A k \in 1..Len(tokens[i].extra) :
                      /\ Len(tokens[i].extra[k]) = 2
                      /\ tokens[i].extra[k][1] =
                             BeforeFirst(AnnotationFields(InputLines[n])[k], ":")

(***************************************************************************)
(* C16                                                                     *)
(***************************************************************************)
\* the first line after the n-th that ends in "_END" (one past the input if none)
BlockEnd(n) ==
    LET c == { m \in (n + 1)..Len(InputLines) : EndsWith(InputLines[m], END) }
    IN  IF c = {} THEN Len(InputLines) + 1 ELSE CHOOSE m \in c : \A k \in c : m <= k

\* C16: for a line ending in "_START" that the main loop takes, the tokens are,
\* in this order and with nothing in between: the open marker for exactly that
\* line; for each following line up to the first one ending in "_END", one
\* KeyValue whose key is the line's first tab field and whose value is the
\* tuple of all its tab fields, the key column included; for the line ending
\* in "_END", one closing marker.  The line after it is classified by the main
\* loop again.
C16_BlockTokens ==
    \A i \in 1..Len(tokens) :
        origin[i] = "start" =>
            LET n == source[i]
                e == BlockEnd(n)
            IN  /\ IsMarker(tokens[i], InputLines[n])
                /\ \A m \in (n + 1)..Consumed :
                     m <= e =>
                        LET j == i + (m - n) IN
                        /\ j <= Len(tokens)
                        /\ TokensOf(m) = {j}
                        /\ IF m < e
                           THEN /\ IsRow(tokens[j])
                                /\ tokens[j].value = Split(InputLines[m], TAB)
                                /\ tokens[j].key = tokens[j].value[1]
                           ELSE IsMarker(tokens[j], Strip(InputLines[m]))
                /\ \A j \in 1..Len(tokens) :
                     (source[j] = e + 1 /\ FromLine(j)) => origin[j] \notin {"row", "end"}

\* a block with a two-column row was opened and closed, and the run went on to
\* its end
C16_Witness ==
    /\ pc = "done"
    /\ \E i \in 1..Len(tokens) :
         /\ i + 2 <= Len(tokens)
         /\ origin[i] = "start"
         /\ IsRow(tokens[i + 1]) /\ Len(tokens[i + 1].value) = 2
         /\ IsMarker(tokens[i + 2], LineEnd)

(***************************************************************************)
(* C18                                                                     *)
(***************************************************************************)
\* a data block is open: its "_START" line was taken and no line ending in
\* "_END" has been taken since
BlockOpen == pc = "block" /\ ~EndsWith(line, END)

\* C18: while a data block is open the classification of the main loop is
\* suspended: whatever the next line looks like, as long as it does not end
\* in "_END", taking it yields exactly one row token made of its tab fields
\* (never "#ENDSECTION", a section marker, a SubjectSampleFactors token, a
\* skipped line or an error), and the block stays open.
C18_BlockSuspendsClassification ==
    [][ (BlockOpen /\ Len(stream) > 0 /\ ~EndsWith(Head(stream), END)) =>
            /\ stream' = Tail(stream)
            /\ line' = Head(stream)
            /\ Len(tokens') = Len(tokens) + 1
            /\ SubSeq(tokens', 1, Len(tokens)) = tokens
            /\ IsRow(Last(tokens'))
            /\ Last(tokens').value = Split(Head(stream), TAB)
            /\ Last(tokens').key = Split(Head(stream), TAB)[1]
            /\ pc' = "block"
            /\ err' = NoError ]_vars

\* inside one block an empty line and a "#SUBJECT_SAMPLE_FACTORS:" line have
\* both become rows
C18_Witness ==
    /\ BlockOpen
    /\ Len(tokens) = 3
    /\ origin[1] = "start"
    /\ IsRow(tokens[2]) /\ tokens[2].value = << <<>> >>
    /\ IsRow(tokens[3]) /\ tokens[3].value = << SSF_HEADER >>

(***************************************************************************)
(* C19                                                                     *)
(***************************************************************************)
\* the file passes every matcher and its data row of metabolite m has a value
\* greater than 0 for sample s
OwnRowPositive(mwtabfile, m, s) ==
    /\ AllMatch(kwargs, mwtabfile)
    /\ \E r \in 1..Len(mwtabfile.data) :
         /\ Get(mwtabfile.data[r], "metabolite_name") = m
         /\ \E i \in 1..Len(mwtabfile.data[r]) :
              /\ mwtabfile.data[r][i][1] = s
              /\ IsFloat(mwtabfile.data[r][i][2])
              /\ Float(mwtabfile.data[r][i][2]) > 0

\* C19: in the dict extract_metabolites builds, a sample s stands under
\* metabolite m, study and analysis only if one of the files taken so far has
\* that study and analysis, passes every matcher, and has a value greater
\* than 0 for s in the data row of metabolite m itself; a positive value in
\* the row of another metabolite never puts s under m.
C19_OwnRowOnly ==
    \A m \in DOMAIN metabolites :
        \A study \in DOMAIN metabolites[m] :
            \A analysis \in DOMAIN metabolites[m][study] :
                \A s \in metabolites[m][study][analysis] :
                    \E i \in 1..findex :
                        /\ mwfiles[i].study_id = study
                        /\ mwfiles[i].analysis_id = analysis
                        /\ OwnRowPositive(mwfiles[i], m, s)
====
